---- MODULE Spec2Model ----
(***************************************************************************)
(* Bear notes MCP server: the hybrid retrieval engine (utils.js), the      *)
(* request handlers (bear-mcp-server.js) and the index builder             *)
(* (create-index.js), as one state machine.                                *)
(*                                                                         *)
(* Texts are sequences of characters.  An embedding is the pair of the     *)
(* numbers of "a" and "b" in the text; the vector index is a flat list of  *)
(* such vectors queried by squared L2 distance.  Ordinals are 0-based as   *)
(* in the code; the index list itself is a 1-based TLA+ sequence, so       *)
(* ordinal o is element o + 1.                                             *)
(***************************************************************************)
EXTENDS Integers, Sequences, FiniteSets, TLC

VARIABLES
    title,          \* ZSFNOTE.ZTITLE per note
    content,        \* ZSFNOTE.ZTEXT per note (Null when the column is NULL)
    subtitle,       \* ZSFNOTE.ZSUBTITLE per note
    creationDate,   \* ZSFNOTE.ZCREATIONDATE per note: seconds since 2001-01-01T00:00:00Z
    trashed,        \* set of notes with ZTRASHED = 1
    modOrder,       \* the rows of ZSFNOTE by ZMODIFICATIONDATE, most recent first
    tagRows,        \* the rows of ZSFNOTETAG in table order: [pk, title]
    noteTagRows,    \* the rows of Z_5TAGS: [note, tag]
    diskIndex,      \* note_vectors.index on disk (Absent or Present(list of vectors))
    diskMap,        \* note_vectors.json on disk (Absent or Present(ordinal -> id))
    bpc,            \* index builder: position in createVectorIndex
    bnotes,         \* index builder: rows read from the repository
    builds,         \* number of runs of the index builder so far
    bindex,         \* index builder: the IndexFlatL2 being filled
    bnoteIds,       \* index builder: noteIds
    pc,             \* the process holding utils.js: "module" (just loaded),
                    \* "serving" (the MCP server after initialize), "client"
                    \* (a program that calls the exported search functions
                    \* itself) or "loader" (a program that preloads the index)
    embedder,       \* utils.js: embedder (FALSE = null, TRUE = pipeline loaded)
    pending,        \* number of initEmbedder calls awaiting pipeline(...)
    loads,          \* number of model loads (calls of pipeline(...)) begun so far
    vectorIndex,    \* utils.js: vectorIndex (Absent = null)
    noteIdMap,      \* utils.js: noteIdMap (Absent = null)
    loaders,        \* loadVectorIndex calls in flight: how many await fs.access
                    \* and how many await fs.readFile
    indexReads,     \* number of times the index artifact was read into the process
    loadFailed,     \* a loadVectorIndex call of this process has returned false
    hasSemanticSearch, \* bear-mcp-server.js: value computed by initialize()
    resp            \* the response of the call that has just completed

vars == <<title, content, subtitle, creationDate, trashed, modOrder, tagRows, noteTagRows,
          diskIndex, diskMap,
          bpc, bnotes, builds, bindex, bnoteIds,
          pc, embedder, pending, loads, vectorIndex, noteIdMap, loaders, indexReads,
          loadFailed, hasSemanticSearch, resp>>

noteVars == <<title, content, subtitle, creationDate, modOrder, tagRows, noteTagRows>>
repoVars == <<noteVars, trashed>>
diskVars == <<diskIndex, diskMap>>
builderVars == <<bpc, bnotes, builds, bindex, bnoteIds>>
loadVars == <<pending, loads>>
\* the module state of utils.js that a call can change, with its history
callVars == <<embedder, loads, vectorIndex, noteIdMap, indexReads, loadFailed>>
serverVars == <<pc, pending, loaders, callVars, hasSemanticSearch>>

----------------------------------------------------------------------------
(* Bounds and the finite universe of the model *)

MaxLimit == 2
MaxBuilds == 2
MaxPending == 2
MaxLoads == 2
MaxLoaders == 2

\* const { query, limit = 10, semantic = true } = request.params.arguments
SearchDefaultLimit == 10
\* const { query, limit = 5 } = request.params.arguments
RagDefaultLimit == 5
\* seconds from 1970-01-01T00:00:00Z to 2001-01-01T00:00:00Z
AppleEpochOffset == 978307200

NoteIds == {"A", "B"}

\* ZSFNOTE rows in table (rowid) order, the order of a SELECT without ORDER BY
TableOrder == <<"A", "B">>

Null == <<"NULL">>

\* a JavaScript undefined: an argument the caller left out
Undefined == <<"UNDEFINED">>
UndefinedId == "#undefined"

\* a JavaScript null, or a file that does not exist
Absent == [present |-> FALSE, val |-> << >>]
Present(v) == [present |-> TRUE, val |-> v]

DbStates == {"up", "down", "tags"}

\* the tags of the populated corpora; the relation row [A, 3] refers to a tag
\* that is no longer in ZSFNOTETAG
SomeTags == <<[pk |-> 1, title |-> "work"], [pk |-> 2, title |-> "home"]>>
SomeNoteTags ==
    { [note |-> "A", tag |-> 1], [note |-> "B", tag |-> 1],
      [note |-> "B", tag |-> 2], [note |-> "A", tag |-> 3] }

\* a store with the notes A and B; A was created at the reference date itself,
\* B one day, one minute and one second after it
Populated(titles, contents) ==
    [title |-> titles, content |-> contents,
     subtitle |-> [A |-> << >>, B |-> <<"b">>],
     creationDate |-> [A |-> 0, B |-> 86461],
     modOrder |-> <<"B", "A">>,
     tagRows |-> SomeTags, noteTagRows |-> SomeNoteTags]

\* a store without notes and without tags
EmptyCorpus ==
    [title |-> [A |-> << >>, B |-> << >>], content |-> [A |-> Null, B |-> Null],
     subtitle |-> [A |-> << >>, B |-> << >>],
     creationDate |-> [A |-> 0, B |-> 0],
     modOrder |-> << >>,
     tagRows |-> << >>, noteTagRows |-> {}]

\* the corpora: note A is matched by its title, note B by its content, and
\* either may have no text at all
Corpora ==
    { EmptyCorpus,
      Populated([A |-> << >>, B |-> << >>], [A |-> Null, B |-> Null]),
      Populated([A |-> << >>, B |-> << >>], [A |-> Null, B |-> <<"b">>]),
      Populated([A |-> <<"a">>, B |-> << >>], [A |-> Null, B |-> <<"a", "b">>]) }
Queries == {<< >>, <<"a">>, <<"b">>, <<"_">>}

\* the artifacts on disk when the process starts: none, or, next to a store
\* that has been emptied since, those of an index built with an embedding
\* model of another dimension (one vector, for the note A of that time)
NoArtifacts == [index |-> Absent, map |-> Absent]
ForeignArtifacts == [index |-> Present(<<<<1, 0, 1>>>>), map |-> Present([o \in {0} |-> "A"])]
InitialArtifacts(c) == {NoArtifacts} \cup (IF c.modOrder = << >> THEN {ForeignArtifacts} ELSE {})
Limits == 1..MaxLimit

\* the identifiers a caller asks for: a note, an identifier no note has, the
\* empty string, none
RequestedIds == NoteIds \cup {"Z", "", UndefinedId}

\* the arguments object of a tools/call request is optional
ArgumentsKinds == {"object", "undefined"}

NoResp ==
    [tool |-> "none", arguments |-> "object", query |-> << >>, id |-> "", limit |-> 0,
     semantic |-> FALSE,
     useSemantic |-> FALSE, db |-> "up", kind |-> "none", error |-> "",
     notes |-> << >>, tags |-> << >>, method |-> "none",
     producedBy |-> "none", semOutcome |-> "skipped", trace |-> {}, lookups |-> 0,
     tools |-> {}]

\* a tool name the server does not know
UnknownTools == {"delete_note"}

\* the notes that have a row in ZSFNOTE
Stored == {modOrder[k] : k \in 1..Len(modOrder)}

NoLoaders == [access |-> 0, readFile |-> 0]

\* no call is being answered, no model load and no index load is pending
Idle == resp = NoResp /\ pending = 0 /\ loaders = NoLoaders

\* a request or call is taken: the builder is not run next to a process that
\* reads the artifacts, so none begins between its two writes
Ready == Idle /\ bpc = "idle"

\* a plausible slip: the handle is writable and a statement purges the trash
PurgeTrash(rows) == {}

\* createDb opens the handle with sqlite3.OPEN_READONLY and every statement
\* run on it is a SELECT: the rows after a statement are the rows before it
ReadOnly(rows) == rows

\* the note store after the statements of a handler or of the builder
StoreAfterQueries ==
    /\ trashed' = ReadOnly(trashed)
    /\ UNCHANGED noteVars

----------------------------------------------------------------------------
(* Text helpers *)

IsSpace(c) == c \in {" ", "\n"}

RECURSIVE TrimLeft(_)
TrimLeft(s) ==
    IF s = << >> THEN << >>
    ELSE IF IsSpace(Head(s)) THEN TrimLeft(Tail(s))
    ELSE s

RECURSIVE TrimRight(_)
TrimRight(s) ==
    IF s = << >> THEN << >>
    ELSE IF IsSpace(s[Len(s)]) THEN TrimRight(SubSeq(s, 1, Len(s) - 1))
    ELSE s

\* String.prototype.trim
Trim(s) == TrimRight(TrimLeft(s))

\* `${note.title}\n${note.content || ''}`.trim()
TextToEmbed(row) ==
    Trim(row.title \o <<"\n">> \o (IF row.content = Null THEN << >> ELSE row.content))

RECURSIVE Count(_, _)
Count(s, c) ==
    IF s = << >> THEN 0
    ELSE (IF Head(s) = c THEN 1 ELSE 0) + Count(Tail(s), c)

\* the embedding model: text -> fixed-length vector, deterministic
Embed(text) == <<Count(text, "a"), Count(text, "b")>>

\* squared L2 distance, as IndexFlatL2 reports it
Distance(u, v) ==
    (u[1] - v[1]) * (u[1] - v[1]) + (u[2] - v[2]) * (u[2] - v[2])

\* `${query}` in a template literal: undefined becomes the text "undefined"
TemplateText(q) ==
    IF q = Undefined THEN <<"u", "n", "d", "e", "f", "i", "n", "e", "d">> ELSE q

\* the LIKE operator of SQLite on a whole text: % in the pattern stands for
\* any sequence of characters, _ for any one character (the texts of the
\* model are lower case, so its ASCII case folding changes nothing)
RECURSIVE LikeMatch(_, _)
LikeMatch(text, pattern) ==
    IF pattern = << >> THEN text = << >>
    ELSE IF Head(pattern) = "%"
    THEN \E k \in 0..Len(text) : LikeMatch(SubSeq(text, k + 1, Len(text)), Tail(pattern))
    ELSE /\ text # << >>
         /\ Head(pattern) = "_" \/ Head(pattern) = Head(text)
         /\ LikeMatch(Tail(text), Tail(pattern))

\* x LIKE ? with the parameter `%${query}%`; a NULL column never matches
Like(text, q) ==
    /\ text # Null
    /\ LikeMatch(text, <<"%">> \o q \o <<"%">>)

\* the civil date <<year, month, day>> of a day number counted from 1970-01-01
\* (proleptic Gregorian calendar, days >= 0)
CivilFromDays(days) ==
    LET z == days + 719468
        era == z \div 146097
        doe == z % 146097
        yoe == (doe - (doe \div 1460) + (doe \div 36524) - (doe \div 146096)) \div 365
        doy == doe - (365 * yoe + (yoe \div 4) - (yoe \div 100))
        mp == (5 * doy + 2) \div 153
        d == doy - ((153 * mp + 2) \div 5) + 1
        m == IF mp < 10 THEN mp + 3 ELSE mp - 9
        y == yoe + era * 400 + (IF m <= 2 THEN 1 ELSE 0)
    IN <<y, m, d>>

\* a creation_date that is still the stored number
NumberValue(t) == [type |-> "number", value |-> <<t>>]

\* new Date(unix * 1000).toISOString() for whole seconds: the text
\* YYYY-MM-DDTHH:mm:ss.000Z as <<year, month, day, hour, minute, second>>
ToISOString(unix) ==
    [type |-> "string",
     value |-> CivilFromDays(unix \div 86400)
                 \o <<(unix % 86400) \div 3600, (unix % 3600) \div 60, unix % 60>>]

\* if (note.creation_date) note.creation_date =
\*     new Date((note.creation_date + 978307200) * 1000).toISOString()
ConvertCreationDate(t) ==
    IF t # 0 THEN ToISOString(t + AppleEpochOffset) ELSE NumberValue(t)

----------------------------------------------------------------------------
(* Index builder: create-index.js *)

\* SELECT id, title, content FROM ZSFNOTE WHERE ZTRASHED = 0
ListActive ==
    LET Keep(n) == n \in Stored /\ n \notin trashed
        Row(n) == [id |-> n, title |-> title[n], content |-> content[n]]
        F[k \in 0..Len(TableOrder)] ==
            IF k = 0 THEN << >>
            ELSE IF Keep(TableOrder[k]) THEN Append(F[k - 1], Row(TableOrder[k]))
            ELSE F[k - 1]
    IN F[Len(TableOrder)]

\* a plausible slip: the id is recorded before the embedding is known to exist
LoopBodyIdFirst(row, embedOk, index, ids) ==
    LET text == TextToEmbed(row) IN
    IF text = << >> THEN [index |-> index, ids |-> ids]
    ELSE IF embedOk THEN [index |-> Append(index, Embed(text)), ids |-> Append(ids, row.id)]
    ELSE [index |-> index, ids |-> Append(ids, row.id)]

\* one iteration of the loop over notes: embed, index.add, noteIds.push
LoopBody(row, embedOk, index, ids) ==
    LET text == TextToEmbed(row) IN
    IF text = << >> THEN [index |-> index, ids |-> ids]
    ELSE IF embedOk THEN [index |-> Append(index, Embed(text)), ids |-> Append(ids, row.id)]
    ELSE [index |-> index, ids |-> ids]

\* noteIdMap[i] = noteIds[i] for i in 0 .. noteIds.length - 1
MakeNoteIdMap(ids) == [o \in 0..(Len(ids) - 1) |-> ids[o + 1]]

\* the loop over the rows: fails is the set of loop positions (0-based) whose
\* createEmbedding throws
RunLoop(rows, fails) ==
    LET F[k \in 0..Len(rows)] ==
            IF k = 0 THEN [index |-> << >>, ids |-> << >>]
            ELSE LoopBody(rows[k], (k - 1) \notin fails, F[k - 1].index, F[k - 1].ids)
    IN F[Len(rows)]

\* createVectorIndex up to and including index.write(`${INDEX_PATH}.index`):
\* the scan of the repository, the loop, the first write.  loadVectorIndex
\* reads the artifacts only while vectorIndex is null, so a build begun after
\* that is never seen by the process: such builds are left out.
BuildIndex ==
    /\ Idle
    /\ bpc = "idle"
    /\ builds < MaxBuilds
    /\ ~vectorIndex.present
    /\ \E fails \in SUBSET (0..(Len(ListActive) - 1)) :
          LET r == RunLoop(ListActive, fails) IN
          /\ bnotes' = ListActive
          /\ bindex' = r.index
          /\ bnoteIds' = r.ids
          /\ diskIndex' = Present(r.index)
    /\ bpc' = "writeMap"
    /\ builds' = builds + 1
    /\ StoreAfterQueries
    /\ UNCHANGED <<diskMap, serverVars, resp>>

\* await fs.writeFile(`${INDEX_PATH}.json`, JSON.stringify(noteIdMap))
BuildWriteMap ==
    /\ Idle
    /\ bpc = "writeMap"
    /\ diskMap' = Present(MakeNoteIdMap(bnoteIds))
    /\ bpc' = "idle"
    /\ bnotes' = << >>
    /\ bindex' = << >>
    /\ bnoteIds' = << >>
    /\ UNCHANGED <<repoVars, diskIndex, serverVars, resp, builds>>

\* a write that throws (or the process is stopped) between the two writes:
\* the catch block logs, the map artifact is left as it was
BuildAbort ==
    /\ Idle
    /\ bpc = "writeMap"
    /\ bpc' = "idle"
    /\ bnotes' = << >>
    /\ bindex' = << >>
    /\ bnoteIds' = << >>
    /\ UNCHANGED <<repoVars, diskVars, serverVars, resp, builds>>

----------------------------------------------------------------------------
(* The note store changes under the server (the Bear application) *)

TrashNote ==
    /\ Idle
    /\ \E n \in Stored \ trashed : trashed' = trashed \cup {n}
    /\ UNCHANGED <<noteVars, diskVars, builderVars, serverVars, resp>>

----------------------------------------------------------------------------
(* Vector index store and embedding provider as utils.js uses them *)

\* The outcomes of the environment during one call:
\*   initOk   the model load in initEmbedder succeeds
\*   embedOk  embedder(text) succeeds
\*   queryOk  vectorIndex.search succeeds
\*   db       "up", "down" (every query fails) or "tags" (only the tag
\*            query fails, e.g. the junction table has another name)
\* At most one of the four goes wrong during a call.
Envs ==
    { e \in [initOk : BOOLEAN, embedOk : BOOLEAN, queryOk : BOOLEAN, db : DbStates] :
        Cardinality({f \in {"initOk", "embedOk", "queryOk"} : ~e[f]})
            + (IF e.db = "up" THEN 0 ELSE 1) <= 1 }

\* loadVectorIndex run without interruption: [vectorIndex, noteIdMap, ret]
\* after the call, and whether the index artifact was read and the call failed
LoadVectorIndex(vi, map) ==
    IF vi.present
    THEN [vectorIndex |-> vi, noteIdMap |-> map, ret |-> TRUE, trace |-> {}]
    ELSE IF ~diskIndex.present
    THEN [vectorIndex |-> vi, noteIdMap |-> map, ret |-> FALSE, trace |-> {"loadFailed"}]
    ELSE IF ~diskMap.present
    THEN [vectorIndex |-> diskIndex, noteIdMap |-> map, ret |-> FALSE,
          trace |-> {"readIndex", "loadFailed"}]
    ELSE [vectorIndex |-> diskIndex, noteIdMap |-> diskMap, ret |-> TRUE,
          trace |-> {"readIndex"}]

\* initEmbedder: [embedder, ret] after the call
InitEmbedder(emb, initOk) ==
    IF ~emb
    THEN (IF initOk THEN [embedder |-> TRUE, ret |-> TRUE]
          ELSE [embedder |-> FALSE, ret |-> FALSE])
    ELSE [embedder |-> emb, ret |-> TRUE]

\* createEmbedding: lazily initialises the embedder, then embeds; whether the
\* provider rejects a text that is undefined or embeds it as some text is not
\* fixed by the code: e.embedOk covers both
CreateEmbedding(text, emb, e) ==
    LET init == IF ~emb THEN InitEmbedder(emb, e.initOk)
                ELSE [embedder |-> emb, ret |-> TRUE]
        t == IF ~emb THEN {"initEmbedder"} ELSE {}
    IN
    IF ~init.ret
    THEN [threw |-> TRUE, vec |-> <<0, 0>>, embedder |-> init.embedder, trace |-> t]
    ELSE [threw |-> ~e.embedOk, vec |-> Embed(TemplateText(text)), embedder |-> init.embedder,
          trace |-> t \cup {"embed"}]

\* IndexFlatL2.search(v, k): the k nearest ordinals, ascending by distance
RECURSIVE Nearest(_, _, _, _)
Nearest(index, qv, rest, k) ==
    IF k = 0 \/ rest = {} THEN << >>
    ELSE LET D(o) == Distance(index[o + 1], qv)
             best == CHOOSE o \in rest :
                        \A p \in rest : D(o) < D(p) \/ (D(o) = D(p) /\ o <= p)
         IN <<[label |-> best, distance |-> D(best)]>>
              \o Nearest(index, qv, rest \ {best}, k - 1)

VectorSearch(index, qv, k) == Nearest(index, qv, 0..(Len(index) - 1), k)

\* labels.map(idx => noteIdMap[idx]).filter(id => id)
MappedIds(hits, map) ==
    LET F[k \in 0..Len(hits)] ==
            IF k = 0 THEN << >>
            ELSE IF hits[k].label \in DOMAIN map THEN Append(F[k - 1], map[hits[k].label])
            ELSE F[k - 1]
    IN F[Len(hits)]

\* Array.prototype.indexOf, 0-based, -1 when absent
IndexOf(s, x) ==
    IF \E k \in 1..Len(s) : s[k] = x
    THEN (CHOOSE k \in 1..Len(s) : s[k] = x /\ \A j \in 1..(k - 1) : s[j] # x) - 1
    ELSE -1

\* a plausible slip: the ZTRASHED = 0 condition is left out
FindByIdsWithTrashed(ids) ==
    SelectSeq(modOrder, LAMBDA n : \E k \in 1..Len(ids) : ids[k] = n)

\* SELECT ... WHERE ZUNIQUEIDENTIFIER IN (ids) AND ZTRASHED = 0
\* ORDER BY ZMODIFICATIONDATE DESC
FindByIds(ids) ==
    SelectSeq(modOrder, LAMBDA n : n \notin trashed /\ \E k \in 1..Len(ids) : ids[k] = n)

\* SELECT ... WHERE ZTRASHED = 0 AND (ZTITLE LIKE ? OR ZTEXT LIKE ?)
\* ORDER BY ZMODIFICATIONDATE DESC LIMIT ?, with the patterns `%${query}%`
KeywordQuery(q, limit) ==
    LET all == SelectSeq(modOrder,
                   LAMBDA n : n \notin trashed
                              /\ (Like(title[n], TemplateText(q)) \/ Like(content[n], TemplateText(q))))
    IN SubSeq(all, 1, IF Len(all) < limit THEN Len(all) ELSE limit)

\* a plausible slip: the ZTRASHED = 0 condition is left out
FindByIdWithTrashed(id) == IF id \in Stored THEN <<id>> ELSE << >>

\* db.getAsync(SELECT ... WHERE ZUNIQUEIDENTIFIER = ? AND ZTRASHED = 0): the
\* row, or nothing
FindById(id) == IF id \in Stored /\ id \notin trashed THEN <<id>> ELSE << >>

\* SELECT ZT.ZTITLE as tag_name FROM Z_5TAGS ZNT
\* JOIN ZSFNOTETAG ZT ON ZT.Z_PK = ZNT.Z_13TAGS JOIN ZSFNOTE ZN ON ZN.Z_PK = ZNT.Z_5NOTES
\* WHERE ZN.ZUNIQUEIDENTIFIER = ?, then tags.map(t => t.tag_name)
TagsOfNote(n) ==
    LET rows == SelectSeq(tagRows,
                    LAMBDA t : n \in Stored /\ [note |-> n, tag |-> t.pk] \in noteTagRows)
    IN [k \in 1..Len(rows) |-> rows[k].title]

\* try { note.tags = ... } catch (tagError) { note.tags = [] }
NoteTags(n, db) == IF db = "tags" THEN << >> ELSE TagsOfNote(n)

\* a plausible slip: db.getAsync is used and only the first row is read
GetAllTagsFirstRow == IF tagRows = << >> THEN << >> ELSE <<tagRows[1].title>>

\* getAllTags: SELECT ZTITLE as name FROM ZSFNOTETAG, tags.map(tag => tag.name)
GetAllTags == [k \in 1..Len(tagRows) |-> tagRows[k].title]

\* a row of the note queries after the loop over the notes: tags attached,
\* creation_date converted
Enrich(n, db) ==
    [id |-> n, title |-> title[n], content |-> content[n], subtitle |-> subtitle[n],
     creation_date |-> ConvertCreationDate(creationDate[n]), tags |-> NoteTags(n, db)]

\* the same with note.score set
EnrichScored(n, db, score) ==
    [id |-> n, title |-> title[n], content |-> content[n], subtitle |-> subtitle[n],
     creation_date |-> ConvertCreationDate(creationDate[n]), tags |-> NoteTags(n, db),
     score |-> score]

\* note.score = idx >= 0 ? 1 - distances[idx] : 0, idx = noteIds.indexOf(note.id)
Score(id, noteIds, hits) ==
    LET idx == IndexOf(noteIds, id) IN
    IF idx >= 0 THEN 1 - hits[idx + 1].distance ELSE 0

RECURSIVE InsertByScore(_, _)
InsertByScore(s, x) ==
    IF s = << >> THEN <<x>>
    ELSE IF Head(s).score >= x.score THEN <<Head(s)>> \o InsertByScore(Tail(s), x)
    ELSE <<x>> \o s

\* a plausible slip: the rows are returned in repository order
SortByScoreOmitted(s) == s

\* notes.sort((a, b) => b.score - a.score): stable, descending by score
SortByScore(s) ==
    LET F[k \in 0..Len(s)] ==
            IF k = 0 THEN << >> ELSE InsertByScore(F[k - 1], s[k])
    IN F[Len(s)]

----------------------------------------------------------------------------------------------------------------------------------------
(* Hybrid retrieval engine: utils.js *)

\* what semanticSearch leaves behind: an exception or notes, the module state
\* (ld: as loadVectorIndex left it) and the collaborators it invoked
SemOut(ld, threw, notes, embd, tr) ==
    [threw |-> threw, notes |-> notes, embedder |-> embd,
     vectorIndex |-> ld.vectorIndex, noteIdMap |-> ld.noteIdMap, trace |-> tr]

\* semanticSearch from the repository query to the sort
SemanticEnrich(e, ld, hits, noteIds, tr) ==
    IF noteIds = << >> THEN SemOut(ld, FALSE, << >>, TRUE, tr)
    ELSE IF e.db = "down" THEN SemOut(ld, TRUE, << >>, TRUE, tr \cup {"findByIds"})
    ELSE SemOut(ld, FALSE,
                SortByScore([k \in 1..Len(FindByIds(noteIds)) |->
                               EnrichScored(FindByIds(noteIds)[k], e.db,
                                            Score(FindByIds(noteIds)[k], noteIds, hits))]),
                TRUE, tr \cup {"findByIds"})

\* semanticSearch from vectorIndex.search to noteIds
SemanticQuery(limit, e, ld, ce, tr) ==
    IF ce.threw THEN SemOut(ld, TRUE, << >>, ce.embedder, tr)
    ELSE IF ~e.queryOk THEN SemOut(ld, TRUE, << >>, TRUE, tr \cup {"vectorQuery"})
    \* noteIdMap is still null after a load that read only the index artifact:
    \* noteIdMap[idx] throws a TypeError for the first label
    ELSE IF ~ld.noteIdMap.present
    THEN SemOut(ld, TRUE, << >>, TRUE, tr \cup {"vectorQuery", "vectorResult"})
    ELSE SemanticEnrich(e, ld,
                        VectorSearch(ld.vectorIndex.val, ce.vec, limit),
                        MappedIds(VectorSearch(ld.vectorIndex.val, ce.vec, limit),
                                  ld.noteIdMap.val),
                        tr \cup {"vectorQuery", "vectorResult"})

\* semanticSearch after the index was ensured: createEmbedding and the rest
SemanticEmbed(q, limit, emb, e, ld, tr) ==
    IF ~ld.ret THEN SemOut(ld, TRUE, << >>, emb, tr)
    ELSE SemanticQuery(limit, e, ld, CreateEmbedding(q, emb, e),
                       tr \cup CreateEmbedding(q, emb, e).trace)

\* semanticSearch(db, query, limit)
SemanticSearch(q, limit, emb, vi, map, e) ==
    IF ~vi.present \/ ~map.present
    THEN SemanticEmbed(q, limit, emb, e, LoadVectorIndex(vi, map),
                       {"loadIndex"} \cup LoadVectorIndex(vi, map).trace)
    ELSE SemanticEmbed(q, limit, emb, e,
                       [vectorIndex |-> vi, noteIdMap |-> map, ret |-> TRUE], {})

\* a plausible slip: a failed keyword query is logged and an empty list returned
KeywordFallbackSwallow(q, limit, e) ==
    IF e.db = "down" THEN [threw |-> FALSE, notes |-> << >>]
    ELSE [threw |-> FALSE,
          notes |-> [k \in 1..Len(KeywordQuery(q, limit)) |->
                       Enrich(KeywordQuery(q, limit)[k], e.db)]]

\* the keyword part of searchNotes: the LIKE query and the enrichment loop
KeywordFallback(q, limit, e) ==
    IF e.db = "down" THEN [threw |-> TRUE, notes |-> << >>]
    ELSE [threw |-> FALSE,
          notes |-> [k \in 1..Len(KeywordQuery(q, limit)) |->
                       Enrich(KeywordQuery(q, limit)[k], e.db)]]

\* what searchNotes hands back, with the path it took
SearchOutcome(sem, semOutcome, threw, notes, by, tr) ==
    [threw |-> threw, notes |-> notes, producedBy |-> by, semOutcome |-> semOutcome,
     embedder |-> sem.embedder, vectorIndex |-> sem.vectorIndex,
     noteIdMap |-> sem.noteIdMap, trace |-> tr]

SemanticSkipped(emb, vi, map) ==
    [threw |-> FALSE, notes |-> << >>, embedder |-> emb,
     vectorIndex |-> vi, noteIdMap |-> map, trace |-> {}]

SemOutcomeOf(sem) ==
    IF sem.threw THEN "threw" ELSE IF sem.notes = << >> THEN "empty" ELSE "nonempty"

\* a plausible slip: the semantic attempt has no try/catch of its own, so its
\* exception reaches the outer catch and is rethrown
SearchFallbackNoCatch(sem, semOutcome, kw) ==
    IF semOutcome = "threw"
    THEN SearchOutcome(sem, semOutcome, TRUE, << >>, "none", sem.trace)
    ELSE IF semOutcome = "nonempty"
    THEN SearchOutcome(sem, semOutcome, FALSE, sem.notes, "semantic", sem.trace)
    ELSE SearchOutcome(sem, semOutcome, kw.threw, kw.notes,
                       IF kw.threw THEN "none" ELSE "keyword",
                       sem.trace \cup {"keywordQuery"})

\* searchNotes once the semantic attempt (sem, with outcome semOutcome) is over
SearchFallback(sem, semOutcome, kw) ==
    IF semOutcome = "nonempty"
    THEN SearchOutcome(sem, semOutcome, FALSE, sem.notes, "semantic", sem.trace)
    ELSE SearchOutcome(sem, semOutcome, kw.threw, kw.notes,
                       IF kw.threw THEN "none" ELSE "keyword",
                       sem.trace \cup {"keywordQuery"})

\* a plausible slip: the useSemanticSearch flag is not consulted
SearchNotesAlwaysSemantic(q, limit, useSemanticSearch, emb, vi, map, e) ==
    SearchFallback(SemanticSearch(q, limit, emb, vi, map, e),
                   SemOutcomeOf(SemanticSearch(q, limit, emb, vi, map, e)),
                   KeywordFallback(q, limit, e))

\* searchNotes(db, query, limit, useSemanticSearch)
SearchNotes(q, limit, useSemanticSearch, emb, vi, map, e) ==
    IF useSemanticSearch
    THEN SearchFallback(SemanticSearch(q, limit, emb, vi, map, e),
                        SemOutcomeOf(SemanticSearch(q, limit, emb, vi, map, e)),
                        KeywordFallback(q, limit, e))
    ELSE SearchFallback(SemanticSkipped(emb, vi, map), "skipped",
                        KeywordFallback(q, limit, e))

\* a plausible slip: the notes are returned as semanticSearch made them
RagSemanticUnformatted(sem) ==
    [threw |-> FALSE,
     notes |-> sem.notes,
     producedBy |-> "semantic",
     semOutcome |-> SemOutcomeOf(sem),
     embedder |-> sem.embedder, vectorIndex |-> sem.vectorIndex,
     noteIdMap |-> sem.noteIdMap, trace |-> sem.trace]

\* retrieveForRAG: the try block, notes.map(...) with a score
RagSemantic(sem) ==
    [threw |-> FALSE,
     notes |-> [k \in 1..Len(sem.notes) |->
                  [id |-> sem.notes[k].id, title |-> sem.notes[k].title,
                   content |-> sem.notes[k].content, tags |-> sem.notes[k].tags,
                   score |-> sem.notes[k].score]],
     producedBy |-> "semantic",
     semOutcome |-> SemOutcomeOf(sem),
     embedder |-> sem.embedder, vectorIndex |-> sem.vectorIndex,
     noteIdMap |-> sem.noteIdMap, trace |-> sem.trace]

\* a plausible slip: the error of the semantic path is rethrown, no fallback
RagKeywordRethrow(sem, kw) ==
    [threw |-> TRUE, notes |-> << >>, producedBy |-> "none", semOutcome |-> "threw",
     embedder |-> sem.embedder, vectorIndex |-> sem.vectorIndex,
     noteIdMap |-> sem.noteIdMap, trace |-> sem.trace]

\* retrieveForRAG: the catch block, searchNotes(db, query, limit, false)
RagKeyword(sem, kw) ==
    [threw |-> kw.threw,
     notes |-> [k \in 1..Len(kw.notes) |->
                  [id |-> kw.notes[k].id, title |-> kw.notes[k].title,
                   content |-> kw.notes[k].content, tags |-> kw.notes[k].tags]],
     producedBy |-> kw.producedBy,
     semOutcome |-> "threw",
     embedder |-> kw.embedder, vectorIndex |-> kw.vectorIndex,
     noteIdMap |-> kw.noteIdMap, trace |-> sem.trace \cup kw.trace]

\* retrieveForRAG once semanticSearch (sem) is over
RagAfterSemantic(q, limit, e, sem) ==
    IF ~sem.threw THEN RagSemantic(sem)
    ELSE RagKeyword(sem, SearchNotes(q, limit, FALSE, sem.embedder, sem.vectorIndex,
                                     sem.noteIdMap, e))

\* retrieveForRAG(db, query, limit)
RetrieveForRAG(q, limit, emb, vi, map, e) ==
    RagAfterSemantic(q, limit, e, SemanticSearch(q, limit, emb, vi, map, e))

\* what retrieveNote leaves behind: an exception with its message or the note,
\* the repository queries it ran and the number of db.getAsync calls
NoteOutcome(threw, error, notes, tr, lookups) ==
    [threw |-> threw, error |-> error, notes |-> notes, trace |-> tr, lookups |-> lookups]

\* retrieveNote once db.getAsync has answered with rows (one row or none)
RetrieveNoteFound(db, rows) ==
    IF rows = << >> THEN NoteOutcome(TRUE, "Note not found", << >>, {"getNote"}, 1)
    ELSE NoteOutcome(FALSE, "", <<Enrich(rows[1], db)>>, {"getNote", "tagQuery"}, 1)

\* retrieveNote(db, id)
RetrieveNote(id, db) ==
    IF id \in {UndefinedId, ""} THEN NoteOutcome(TRUE, "Note ID is required", << >>, {}, 0)
    ELSE IF db = "down" THEN NoteOutcome(TRUE, "SQLITE_ERROR", << >>, {"getNote"}, 1)
    ELSE RetrieveNoteFound(db, FindById(id))

----------------
(* Server: bear-mcp-server.js *)

\* initialize(): initEmbedder, loadVectorIndex, hasSemanticSearch
Initialize ==
    /\ Ready
    /\ pc = "module"
    /\ \E initOk \in BOOLEAN :
          LET init == InitEmbedder(embedder, initOk)
              ld == LoadVectorIndex(vectorIndex, noteIdMap)
          IN /\ embedder' = init.embedder
             /\ vectorIndex' = ld.vectorIndex
             /\ noteIdMap' = ld.noteIdMap
             /\ hasSemanticSearch' = (init.ret /\ ld.ret)
             /\ indexReads' = indexReads + (IF "readIndex" \in ld.trace THEN 1 ELSE 0)
             /\ loadFailed' = (loadFailed \/ ~ld.ret)
    /\ loads' = loads + 1
    /\ pc' = "serving"
    /\ UNCHANGED <<repoVars, diskVars, builderVars, pending, loaders, resp>>

\* the toolResult of search_notes
SearchNotesResponse(r, useSemanticSearch) ==
    IF r.threw
    THEN [kind |-> "error", error |-> "Search failed", notes |-> << >>, method |-> "keyword"]
    ELSE [kind |-> "ok", error |-> "", notes |-> r.notes,
          method |-> IF useSemanticSearch THEN "semantic" ELSE "keyword"]

\* the toolResult of retrieve_for_rag
RagResponse(r) ==
    IF r.threw
    THEN [kind |-> "error", error |-> "RAG retrieval failed", notes |-> << >>, method |-> "none"]
    ELSE [kind |-> "ok", error |-> "", notes |-> r.notes, method |-> "none"]

Completed(tool, q, limit, semantic, useSem, e, out, r) ==
    /\ resp' = [NoResp EXCEPT !.tool = tool, !.query = q, !.limit = limit,
                              !.semantic = semantic, !.useSemantic = useSem, !.db = e.db,
                              !.kind = out.kind, !.error = out.error, !.notes = out.notes,
                              !.method = out.method, !.producedBy = r.producedBy,
                              !.semOutcome = r.semOutcome, !.trace = r.trace]
    /\ embedder' = r.embedder
    /\ loads' = loads + (IF "initEmbedder" \in r.trace THEN 1 ELSE 0)
    /\ vectorIndex' = r.vectorIndex
    /\ noteIdMap' = r.noteIdMap
    /\ indexReads' = indexReads + (IF "readIndex" \in r.trace THEN 1 ELSE 0)
    /\ loadFailed' = (loadFailed \/ "loadFailed" \in r.trace)

\* what a caller of an exported function observes: a value or an exception
Returned(r) ==
    [kind |-> IF r.threw THEN "threw" ELSE "returned", error |-> "", notes |-> r.notes,
     method |-> "none"]

CompletedSearchNotes(q, limit, semantic, useSemanticSearch, e, r) ==
    Completed("search_notes", q, limit, semantic, useSemanticSearch, e,
              SearchNotesResponse(r, useSemanticSearch), r)

CompletedRag(q, limit, e, r) ==
    Completed("retrieve_for_rag", q, limit, TRUE, TRUE, e, RagResponse(r), r)

CompletedApi(fn, q, limit, semantic, e, r) ==
    Completed(fn, q, limit, semantic, semantic, e, Returned(r), r)

\* const { ... } = request.params.arguments with arguments undefined: the
\* destructuring throws a TypeError, outside every try block of the handler
HandlerThrew(tool) ==
    /\ resp' = [NoResp EXCEPT !.tool = tool, !.arguments = "undefined",
                              !.query = Undefined, !.id = UndefinedId,
                              !.kind = "threw", !.error = "TypeError"]
    /\ UNCHANGED callVars

\* CallToolRequestSchema handler, name = 'search_notes'; an argument left out
\* takes its default (limit = 10, semantic = true), query has none
CallSearchNotes ==
    /\ Ready
    /\ pc = "serving"
    /\ \E arguments \in ArgumentsKinds :
          IF arguments = "undefined" THEN HandlerThrew("search_notes")
          ELSE \E q \in Queries \cup {Undefined}, limit \in Limits \cup {SearchDefaultLimit},
                  semantic \in BOOLEAN, e \in Envs :
                 CompletedSearchNotes(q, limit, semantic, semantic /\ hasSemanticSearch, e,
                     SearchNotes(q, limit, semantic /\ hasSemanticSearch,
                                 embedder, vectorIndex, noteIdMap, e))
    /\ StoreAfterQueries
    /\ UNCHANGED <<diskVars, builderVars, pc, pending, loaders, hasSemanticSearch>>

\* the toolResult of get_note: { note } or { error: error.message }; the note
\* is kept as the only element of notes
GetNoteResponse(id, db, r) ==
    [NoResp EXCEPT !.tool = "get_note", !.id = id, !.db = db,
                   !.kind = IF r.threw THEN "error" ELSE "ok", !.error = r.error,
                   !.notes = r.notes, !.trace = r.trace, !.lookups = r.lookups]

\* CallToolRequestSchema handler, name = 'get_note'
CallGetNote ==
    /\ Ready
    /\ pc = "serving"
    /\ \E arguments \in ArgumentsKinds :
          IF arguments = "undefined" THEN HandlerThrew("get_note")
          ELSE /\ \E id \in RequestedIds, db \in DbStates :
                     resp' = GetNoteResponse(id, db, RetrieveNote(id, db))
               /\ UNCHANGED callVars
    /\ StoreAfterQueries
    /\ UNCHANGED <<diskVars, builderVars, pc, pending, loaders, hasSemanticSearch>>

\* the toolResult of get_tags: { tags } or { error: error.message }
GetTagsResponse(db) ==
    IF db = "down"
    THEN [NoResp EXCEPT !.tool = "get_tags", !.db = db, !.kind = "error",
                        !.error = "SQLITE_ERROR", !.trace = {"allTags"}]
    ELSE [NoResp EXCEPT !.tool = "get_tags", !.db = db, !.kind = "ok",
                        !.tags = GetAllTags, !.trace = {"allTags"}]

\* CallToolRequestSchema handler, name = 'get_tags': the arguments are not read
CallGetTags ==
    /\ Ready
    /\ pc = "serving"
    /\ \E arguments \in ArgumentsKinds, db \in DbStates :
          resp' = [GetTagsResponse(db) EXCEPT !.arguments = arguments]
    /\ StoreAfterQueries
    /\ UNCHANGED <<diskVars, builderVars, serverVars>>

\* CallToolRequestSchema handler, name = 'retrieve_for_rag'
CallRetrieveForRag ==
    /\ Ready
    /\ pc = "serving"
    /\ \E arguments \in ArgumentsKinds :
          IF ~hasSemanticSearch
          THEN \* throw new McpError(ErrorCode.MethodNotFound, 'Tool not found')
               /\ resp' = [NoResp EXCEPT !.tool = "retrieve_for_rag",
                                         !.arguments = arguments, !.semantic = TRUE,
                                         !.kind = "methodNotFound"]
               /\ UNCHANGED callVars
          ELSE IF arguments = "undefined" THEN HandlerThrew("retrieve_for_rag")
          ELSE \E q \in Queries \cup {Undefined}, limit \in Limits \cup {RagDefaultLimit},
                  e \in Envs :
                 CompletedRag(q, limit, e,
                     RetrieveForRAG(q, limit, embedder, vectorIndex, noteIdMap, e))
    /\ StoreAfterQueries
    /\ UNCHANGED <<diskVars, builderVars, pc, pending, loaders, hasSemanticSearch>>

\* a plausible slip: the RAG tool is pushed without the test of hasSemanticSearch
ListedToolsAlways == {"search_notes", "get_note", "get_tags", "retrieve_for_rag"}

\* ListToolsRequestSchema handler: the names of the tools array
ListedTools ==
    {"search_notes", "get_note", "get_tags"}
        \cup (IF hasSemanticSearch THEN {"retrieve_for_rag"} ELSE {})

\* a tools/list request is answered
ListTools ==
    /\ Ready
    /\ pc = "serving"
    /\ resp' = [NoResp EXCEPT !.tool = "tools/list", !.kind = "ok", !.tools = ListedTools]
    /\ UNCHANGED <<repoVars, diskVars, builderVars, serverVars>>

\* CallToolRequestSchema handler with a name none of its branches tests:
\* throw new McpError(ErrorCode.MethodNotFound, 'Tool not found')
CallUnknownTool ==
    /\ Ready
    /\ pc = "serving"
    /\ \E name \in UnknownTools, arguments \in ArgumentsKinds :
          resp' = [NoResp EXCEPT !.tool = name, !.arguments = arguments,
                                 !.kind = "methodNotFound"]
    /\ UNCHANGED <<repoVars, diskVars, builderVars, serverVars>>

\* a direct call of the exported searchNotes
ApiSearchNotes ==
    /\ Ready
    /\ pc \in {"module", "client"}
    /\ embedder \/ loads < MaxLoads
    /\ pc' = "client"
    /\ \E q \in Queries, limit \in Limits, useSemanticSearch \in BOOLEAN, e \in Envs :
          CompletedApi("searchNotes", q, limit, useSemanticSearch, e,
              SearchNotes(q, limit, useSemanticSearch, embedder, vectorIndex, noteIdMap, e))
    /\ StoreAfterQueries
    /\ UNCHANGED <<diskVars, builderVars, pending, loaders, hasSemanticSearch>>

\* a direct call of the exported retrieveForRAG
ApiRetrieveForRAG ==
    /\ Ready
    /\ pc \in {"module", "client"}
    /\ embedder \/ loads < MaxLoads
    /\ pc' = "client"
    /\ \E q \in Queries, limit \in Limits, e \in Envs :
          CompletedApi("retrieveForRAG", q, limit, TRUE, e,
              RetrieveForRAG(q, limit, embedder, vectorIndex, noteIdMap, e))
    /\ StoreAfterQueries
    /\ UNCHANGED <<diskVars, builderVars, pending, loaders, hasSemanticSearch>>

\* a direct call of the exported initEmbedder, up to `await pipeline(...)`:
\* with the embedder set it returns true at once, otherwise it begins a load
ApiInitEmbedder ==
    /\ resp = NoResp
    /\ pc \in {"module", "client"}
    /\ pc' = "client"
    /\ IF embedder
       THEN /\ resp' = [NoResp EXCEPT !.tool = "initEmbedder", !.kind = "true"]
            /\ UNCHANGED loadVars
       ELSE /\ pending < MaxPending
            /\ loads < MaxLoads
            /\ pending' = pending + 1
            /\ loads' = loads + 1
            /\ UNCHANGED resp
    /\ loaders = NoLoaders
    /\ UNCHANGED <<repoVars, diskVars, builderVars, embedder, vectorIndex, noteIdMap,
                   loaders, indexReads, loadFailed, hasSemanticSearch>>

\* pipeline(...) settles for one of the pending calls: embedder is assigned and
\* the call returns true, or the catch block returns false
InitEmbedderSettles ==
    /\ resp = NoResp
    /\ pending > 0
    /\ \E ok \in BOOLEAN :
          /\ embedder' = (embedder \/ ok)
          /\ resp' = [NoResp EXCEPT !.tool = "initEmbedder",
                                    !.kind = IF ok THEN "true" ELSE "false",
                                    !.trace = {"initEmbedder"}]
    /\ pending' = pending - 1
    /\ UNCHANGED <<repoVars, diskVars, builderVars, pc, loads, vectorIndex, noteIdMap,
                   loaders, indexReads, loadFailed, hasSemanticSearch>>

\* a direct call of the exported loadVectorIndex by a program that preloads the
\* index: with vectorIndex set it returns true at once, otherwise it awaits
\* fs.access of the index artifact
ApiLoadVectorIndex ==
    /\ resp = NoResp
    /\ pending = 0
    /\ bpc = "idle"
    /\ pc \in {"module", "loader"}
    /\ pc' = "loader"
    /\ IF vectorIndex.present
       THEN /\ resp' = [NoResp EXCEPT !.tool = "loadVectorIndex", !.kind = "true"]
            /\ UNCHANGED loaders
       ELSE /\ loaders.access + loaders.readFile < MaxLoaders
            /\ loaders' = [loaders EXCEPT !.access = @ + 1]
            /\ UNCHANGED resp
    /\ UNCHANGED <<repoVars, diskVars, builderVars, pending, callVars, hasSemanticSearch>>

\* fs.access settles for one call in flight: without the index artifact the
\* catch block returns false; with it IndexFlatL2.read assigns vectorIndex and
\* the call awaits fs.readFile of the map artifact
LoadAccessSettles ==
    /\ resp = NoResp
    /\ loaders.access > 0
    /\ IF ~diskIndex.present
       THEN /\ loaders' = [loaders EXCEPT !.access = @ - 1]
            /\ resp' = [NoResp EXCEPT !.tool = "loadVectorIndex", !.kind = "false",
                                      !.trace = {"loadFailed"}]
            /\ loadFailed' = TRUE
            /\ UNCHANGED <<vectorIndex, indexReads>>
       ELSE /\ loaders' = [access |-> loaders.access - 1, readFile |-> loaders.readFile + 1]
            /\ vectorIndex' = diskIndex
            /\ indexReads' = indexReads + 1
            /\ UNCHANGED <<resp, loadFailed>>
    /\ UNCHANGED <<repoVars, diskVars, builderVars, pc, pending, embedder, loads, noteIdMap,
                   hasSemanticSearch>>

\* fs.readFile settles for one call in flight: JSON.parse assigns noteIdMap
\* and the call returns true, or the catch block returns false
LoadReadFileSettles ==
    /\ resp = NoResp
    /\ loaders.readFile > 0
    /\ loaders' = [loaders EXCEPT !.readFile = @ - 1]
    /\ IF ~diskMap.present
       THEN /\ resp' = [NoResp EXCEPT !.tool = "loadVectorIndex", !.kind = "false",
                                      !.trace = {"readIndex", "loadFailed"}]
            /\ loadFailed' = TRUE
            /\ UNCHANGED noteIdMap
       ELSE /\ resp' = [NoResp EXCEPT !.tool = "loadVectorIndex", !.kind = "true",
                                      !.trace = {"readIndex"}]
            /\ noteIdMap' = diskMap
            /\ UNCHANGED loadFailed
    /\ UNCHANGED <<repoVars, diskVars, builderVars, pc, pending, embedder, loads, vectorIndex,
                   indexReads, hasSemanticSearch>>

\* the response is handed to the caller and discarded
Respond ==
    /\ resp # NoResp
    /\ resp' = NoResp
    /\ UNCHANGED <<repoVars, diskVars, builderVars, serverVars>>

----------------------------------------------------------------------------
(* Specification *)

Init ==
    /\ \E c \in Corpora :
          /\ title = c.title
          /\ content = c.content
          /\ subtitle = c.subtitle
          /\ creationDate = c.creationDate
          /\ modOrder = c.modOrder
          /\ tagRows = c.tagRows
          /\ noteTagRows = c.noteTagRows
          /\ \E a \in InitialArtifacts(c) :
                /\ diskIndex = a.index
                /\ diskMap = a.map
    /\ trashed = {}
    /\ bpc = "idle"
    /\ bnotes = << >>
    /\ builds = 0
    /\ bindex = << >>
    /\ bnoteIds = << >>
    /\ pc = "module"
    /\ embedder = FALSE
    /\ pending = 0
    /\ loads = 0
    /\ vectorIndex = Absent
    /\ noteIdMap = Absent
    /\ loaders = NoLoaders
    /\ indexReads = 0
    /\ loadFailed = FALSE
    /\ hasSemanticSearch = FALSE
    /\ resp = NoResp

Next ==
    \/ BuildIndex
    \/ BuildWriteMap
    \/ BuildAbort
    \/ TrashNote
    \/ Initialize
    \/ CallSearchNotes
    \/ CallGetNote
    \/ CallGetTags
    \/ CallRetrieveForRag
    \/ ListTools
    \/ CallUnknownTool
    \/ ApiSearchNotes
    \/ ApiRetrieveForRAG
    \/ ApiInitEmbedder
    \/ InitEmbedderSettles
    \/ ApiLoadVectorIndex
    \/ LoadAccessSettles
    \/ LoadReadFileSettles
    \/ Respond

Spec == Init /\ [][Next]_vars

----------------------------------------------------------------------------
(* Properties *)

SearchCalls == {"search_notes", "searchNotes"}
Failed == resp.kind \in {"error", "threw"}

\* the keyword result for the request of resp, in the present repository
KeywordNotesOfRequest ==
    [k \in 1..Len(KeywordQuery(resp.query, resp.limit)) |->
        Enrich(KeywordQuery(resp.query, resp.limit)[k], resp.db)]

\* the same as retrieveForRAG formats it
KeywordContextOfRequest ==
    [k \in 1..Len(KeywordNotesOfRequest) |->
        [id |-> KeywordNotesOfRequest[k].id, title |-> KeywordNotesOfRequest[k].title,
         content |-> KeywordNotesOfRequest[k].content, tags |-> KeywordNotesOfRequest[k].tags]]

\* what the vector query returns for the request of resp
HitsOfRequest ==
    { VectorSearch(vectorIndex.val, Embed(resp.query), resp.limit)[j] :
        j \in 1..(IF Len(vectorIndex.val) < resp.limit THEN Len(vectorIndex.val)
                  ELSE resp.limit) }

\* the completed call failed or returned exactly as r did
SameOutcome(r) == Failed = r.threw /\ resp.notes = r.notes

\* the row the builder read for a note
BuilderRow(id) == CHOOSE r \in {bnotes[k] : k \in 1..Len(bnotes)} : r.id = id

\* C1: after the builder's loop the index holds as many vectors as the
\* position map has entries, and vector i is the embedding of the text of the
\* note whose identifier is map entry i, whichever notes were skipped for
\* having no text or for failing to embed.
C1_OrdinalAlignment ==
    bpc = "writeMap" =>
        LET m == MakeNoteIdMap(bnoteIds) IN
        /\ DOMAIN m = 0..(Len(bindex) - 1)
        /\ diskIndex = Present(bindex)
        /\ \A o \in DOMAIN m :
              /\ \E k \in 1..Len(bnotes) : bnotes[k].id = m[o]
              /\ bindex[o + 1] = Embed(TextToEmbed(BuilderRow(m[o])))

\* a build over two rows in which the first was skipped and the second indexed
C1_Witness ==
    /\ bpc = "writeMap"
    /\ Len(bnotes) = 2
    /\ bnoteIds = <<"B">>
    /\ Len(bindex) = 1

\* C2: the method a search_notes response reports is the method that
\* produced the notes it carries.
C2_ReportedMethodIsProducer ==
    (resp.tool = "search_notes" /\ resp.kind = "ok") => resp.method = resp.producedBy

\* C3: a search with semantic requested and the index available returns at
\* most limit notes, and semantic notes come in non-increasing score.
C3_AtMostLimitSortedByScore ==
    (resp.tool \in SearchCalls /\ resp.semantic /\ vectorIndex.present /\ noteIdMap.present) =>
        /\ Len(resp.notes) <= resp.limit
        /\ resp.producedBy = "semantic" =>
              \A k \in 1..(Len(resp.notes) - 1) :
                  resp.notes[k].score >= resp.notes[k + 1].score

\* two semantic results whose score order is the reverse of the repository's
\* modification order
C3_Witness ==
    /\ resp.tool = "search_notes"
    /\ resp.producedBy = "semantic"
    /\ Len(resp.notes) = 2
    /\ resp.notes[1].score > resp.notes[2].score
    /\ resp.notes[1].id = modOrder[2]

\* C4: every semantic result's score is 1 minus the distance the vector query
\* returned for the ordinal that the position map maps to the result's note.
C4_ScoreIsOneMinusDistance ==
    resp.producedBy = "semantic" =>
        \A k \in 1..Len(resp.notes) :
            \E hit \in HitsOfRequest :
                /\ hit.label \in DOMAIN noteIdMap.val
                /\ noteIdMap.val[hit.label] = resp.notes[k].id
                /\ resp.notes[k].score = 1 - hit.distance

\* C5: a search with semantic not requested never initialises or invokes the
\* embedding provider and never loads or queries the vector index.
C5_KeywordSearchNeverEmbeds ==
    (resp.tool \in SearchCalls /\ ~resp.semantic) =>
        resp.trace \cap {"initEmbedder", "embed", "loadIndex", "vectorQuery"} = {}

\* a keyword-only search_notes call answered while semantic search is available
C5_Witness ==
    /\ resp.tool = "search_notes"
    /\ ~resp.semantic
    /\ hasSemanticSearch
    /\ resp.kind = "ok"
    /\ resp.notes # << >>

\* C6: with the index artifacts absent, a search with semantic requested
\* gives the result of the same search with semantic not requested.
C6_AbsentArtifactsGiveKeywordResult ==
    (resp.tool \in SearchCalls /\ resp.semantic /\ ~diskIndex.present /\ ~diskMap.present) =>
        SameOutcome(SearchNotes(resp.query, resp.limit, FALSE, embedder, vectorIndex, noteIdMap,
                                [initOk |-> TRUE, embedOk |-> TRUE, queryOk |-> TRUE,
                                 db |-> resp.db]))

\* a semantic search that tried to load the absent index and returned notes
C6_Witness ==
    /\ resp.tool = "searchNotes"
    /\ resp.semantic
    /\ ~diskIndex.present /\ ~diskMap.present
    /\ "loadIndex" \in resp.trace
    /\ resp.notes # << >>

\* C7: when the semantic attempt of a search throws or yields no notes, the
\* keyword query is run and its result returned; the call fails exactly when
\* the keyword query fails.
C7_SemanticFailureFallsBack ==
    (resp.tool \in SearchCalls /\ resp.useSemantic /\ resp.semOutcome \in {"threw", "empty"}) =>
        /\ "keywordQuery" \in resp.trace
        /\ Failed <=> resp.db = "down"
        /\ ~Failed => (resp.producedBy = "keyword" /\ resp.notes = KeywordNotesOfRequest)

\* the embedding of the query failed and keyword notes were returned
C7_Witness ==
    /\ resp.tool = "search_notes"
    /\ resp.semOutcome = "threw"
    /\ "embed" \in resp.trace
    /\ "vectorQuery" \notin resp.trace
    /\ resp.kind = "ok"
    /\ resp.notes # << >>

\* C8: a keyword query that fails because the repository is unavailable ends
\* the call in an error: searchNotes throws, search_notes answers with an
\* error field, never with a successful empty result.
C8_KeywordFailureIsReported ==
    (resp.tool \in SearchCalls /\ "keywordQuery" \in resp.trace /\ resp.db = "down") =>
        /\ resp.tool = "searchNotes" => resp.kind = "threw"
        /\ resp.tool = "search_notes" => resp.kind = "error"

\* a keyword-only search_notes call against an unavailable repository
C8_Witness ==
    /\ resp.tool = "search_notes"
    /\ resp.db = "down"
    /\ ~resp.useSemantic
    /\ resp.kind = "error"

\* C9: with the repository reachable retrieveForRAG returns; when its
\* semantic path throws, what it returns is the keyword context.
C9_RagNeverRaises ==
    (resp.tool = "retrieveForRAG" /\ resp.db # "down") =>
        /\ resp.kind = "returned"
        /\ resp.semOutcome = "threw" =>
              (resp.producedBy = "keyword" /\ resp.notes = KeywordContextOfRequest)

\* retrieveForRAG found no index to load and returned keyword context
C9_Witness ==
    /\ resp.tool = "retrieveForRAG"
    /\ resp.semOutcome = "threw"
    /\ "loadIndex" \in resp.trace
    /\ ~vectorIndex.present
    /\ resp.kind = "returned"
    /\ resp.notes # << >>

\* C10: in every state of the server a retrieve_for_rag call with a reachable
\* repository is answered with context items, not with an error; without
\* semantic search the items are keyword results without a score.
C10_RagAnsweredInEveryState ==
    (resp.tool = "retrieve_for_rag" /\ resp.db # "down") =>
        /\ resp.kind = "ok"
        /\ ~hasSemanticSearch =>
              (resp.producedBy = "keyword"
               /\ \A k \in 1..Len(resp.notes) : "score" \notin DOMAIN resp.notes[k])

RagCalls == {"retrieve_for_rag", "retrieveForRAG"}
ServerTools == {"search_notes", "get_note", "get_tags", "retrieve_for_rag"}

\* the statements run on the repository, as the traces name them; the tag
\* query of a search only ever follows its note query
RepositoryQueries == {"findByIds", "keywordQuery", "getNote", "tagQuery", "allTags"}

\* the messages with which the code rejects an argument
InvalidArgumentErrors == {"Note ID is required"}

\* the completed call was made without its required argument
MissingRequired ==
    \/ resp.tool \in {"search_notes", "retrieve_for_rag"}
       /\ resp.kind # "methodNotFound" /\ resp.query = Undefined
    \/ resp.tool = "get_note" /\ resp.id = UndefinedId

\* C11: every context item of a RAG retrieval has exactly the fields id,
\* title, content, tags and score when the semantic path produced it and
\* exactly id, title, content and tags when the keyword fallback did; the
\* values are those of the note.
C11_RagItemFields ==
    resp.tool \in RagCalls =>
        \A k \in 1..Len(resp.notes) :
            /\ DOMAIN resp.notes[k] =
                  (IF resp.producedBy = "semantic"
                   THEN {"id", "title", "content", "tags", "score"}
                   ELSE {"id", "title", "content", "tags"})
            /\ resp.notes[k].title = title[resp.notes[k].id]
            /\ resp.notes[k].content = content[resp.notes[k].id]
            /\ resp.notes[k].tags = NoteTags(resp.notes[k].id, resp.db)

\* a semantic context of two tagged items
C11_Witness ==
    /\ resp.tool = "retrieve_for_rag"
    /\ resp.producedBy = "semantic"
    /\ Len(resp.notes) = 2
    /\ resp.notes[1].tags # << >>
    /\ resp.notes[2].tags # << >>

\* C12: every returned note that carries a creation date carries the UTC
\* instant 2001-01-01T00:00:00Z plus the stored number of seconds; the stored
\* value 0 is returned as 2001-01-01T00:00:00Z.
C12_CreationDateConverted ==
    \A k \in 1..Len(resp.notes) :
        "creation_date" \in DOMAIN resp.notes[k] =>
            /\ resp.notes[k].creation_date =
                  ToISOString(creationDate[resp.notes[k].id] + AppleEpochOffset)
            /\ creationDate[resp.notes[k].id] = 0 =>
                  resp.notes[k].creation_date.value = <<2001, 1, 1, 0, 0, 0>>

\* C13: search_notes with the empty query, the default limit and the default
\* semantic flag over a reachable store without notes returns no notes,
\* reports the method 'keyword' and no error, with or without a loaded index.
C13_EmptyQueryOnEmptyCorpus ==
    (/\ resp.tool = "search_notes" /\ resp.arguments = "object"
     /\ resp.query = << >> /\ resp.limit = SearchDefaultLimit /\ resp.semantic
     /\ Stored = {} /\ resp.db # "down") =>
        /\ resp.kind = "ok"
        /\ resp.notes = << >>
        /\ resp.method = "keyword"

\* C14: no note of any result is a trashed note.
C14_NoTrashedResult ==
    \A k \in 1..Len(resp.notes) : resp.notes[k].id \notin trashed

\* a semantic result returned while the loaded position map still names a
\* note that is in the trash
C14_Witness ==
    /\ resp.tool = "search_notes"
    /\ resp.producedBy = "semantic"
    /\ resp.notes # << >>
    /\ noteIdMap.present
    /\ \E o \in DOMAIN noteIdMap.val : noteIdMap.val[o] \in trashed

\* C15: get_note for an identifier that no note has or that a trashed note
\* has is answered with an error field and no note after one lookup, and
\* with the message 'Note not found' when the repository answered.
C15_AbsentOrTrashedIsNotFound ==
    (/\ resp.tool = "get_note" /\ resp.arguments = "object"
     /\ resp.id \notin {UndefinedId, ""}
     /\ (resp.id \notin Stored \/ resp.id \in trashed)) =>
        /\ resp.kind = "error"
        /\ resp.notes = << >>
        /\ resp.lookups = 1
        /\ resp.db # "down" => resp.error = "Note not found"

\* get_note for a note that is in the trash
C15_Witness ==
    /\ resp.tool = "get_note"
    /\ resp.id \in Stored
    /\ resp.id \in trashed
    /\ resp.error = "Note not found"

\* C16: a call without its required argument is answered with an
\* invalid-argument error, and neither a repository query nor the embedding
\* provider was run for it.
C16_MissingArgumentRejected ==
    MissingRequired =>
        /\ resp.kind = "error"
        /\ resp.error \in InvalidArgumentErrors
        /\ resp.trace \cap (RepositoryQueries \cup {"embed"}) = {}

\* C17: search_notes, get_note and get_tags always answer with a toolResult:
\* the handler does not throw, an error result carries an error field, and a
\* call against an unavailable repository is answered with an error result.
C17_FailuresAreErrorResults ==
    resp.tool \in {"search_notes", "get_note", "get_tags"} =>
        /\ resp.kind \in {"ok", "error"}
        /\ resp.kind = "error" => resp.error # ""
        /\ resp.db = "down" => resp.kind = "error"

\* C18: every tag of a note returned by get_note is in the list that
\* get_tags returns for the same repository state.
C18_NoteTagsAreListed ==
    (resp.tool = "get_note" /\ resp.kind = "ok") =>
        \A k \in 1..Len(resp.notes[1].tags) :
            \E j \in 1..Len(GetAllTags) : GetAllTags[j] = resp.notes[1].tags[k]

\* get_note returned a note with two tags
C18_Witness ==
    /\ resp.tool = "get_note"
    /\ resp.kind = "ok"
    /\ Len(resp.notes[1].tags) = 2

\* C19: over all calls of initEmbedder, direct or from createEmbedding, at
\* most one model load is ever begun.
C19_OnlyFirstCallLoads == loads <= 1

\* C20: a step in which a tool call is answered or the index builder
\* advances leaves notes, tags and note-tag relations as they were.
C20_StoreUnchanged ==
    [][((resp = NoResp /\ resp'.tool \in ServerTools) \/ bpc' # bpc)
          => UNCHANGED repoVars]_vars

\* a tool call answered after a complete build, over a store with a note in
\* the trash
C20_Witness ==
    /\ resp.tool = "get_note"
    /\ resp.kind = "ok"
    /\ diskMap.present
    /\ trashed # {}

\* C21: whenever no index load is in flight the cached vector index is set
\* exactly when the cached position map is set, and a loadVectorIndex call
\* that returned true left both of them set.
C21_IndexAndMapTogether ==
    /\ loaders = NoLoaders => (vectorIndex.present <=> noteIdMap.present)
    /\ (resp.tool = "loadVectorIndex" /\ resp.kind = "true")
          => (vectorIndex.present /\ noteIdMap.present)

\* C22: the index artifact is read into the process at most once, and a
\* cached index or position map, once set, is the same after every step.
C22_IndexReadOnceAndKept ==
    [][/\ indexReads' <= 1
       /\ vectorIndex.present => vectorIndex' = vectorIndex
       /\ noteIdMap.present => noteIdMap' = noteIdMap]_vars

\* C23: once a loadVectorIndex call of the process has returned false, no
\* search or retrieval answered afterwards calls loadVectorIndex or runs a
\* vector query.
C23_FailedLoadIsFinal ==
    [][(loadFailed /\ resp = NoResp /\ resp'.tool \in SearchCalls \cup RagCalls)
          => resp'.trace \cap {"loadIndex", "vectorQuery"} = {}]_vars

\* C24: after a run of the builder, the index artifact and the map artifact
\* are both absent or both present, of the same length, and vector i of the
\* index is the embedding of the note that the map names at ordinal i.
C24_ArtifactsFromSameBuild ==
    (bpc = "idle" /\ builds > 0) =>
        /\ diskIndex.present <=> diskMap.present
        /\ DOMAIN diskMap.val = 0..(Len(diskIndex.val) - 1)
        /\ \A o \in DOMAIN diskMap.val :
              diskIndex.val[o + 1] =
                  Embed(TextToEmbed([title |-> title[diskMap.val[o]],
                                     content |-> content[diskMap.val[o]]]))

\* the tag query ran for a note of the completed call and failed: it runs once
\* for every note row the note query returned
TagQueryFailed == resp.db = "tags" /\ ("tagQuery" \in resp.trace \/ resp.notes # << >>)

\* C25: a search, retrieval or get_note call during which the tag query of
\* the repository fails reports an error.
C25_TagFailureIsReported ==
    (resp.tool \in SearchCalls \cup RagCalls \cup {"get_note"} /\ TagQueryFailed) => Failed

\* text contains q as a substring
Contains(text, q) ==
    /\ text # Null
    /\ \E i \in 1..(Len(text) + 1) :
          /\ i + Len(q) - 1 <= Len(text)
          /\ SubSeq(text, i, i + Len(q) - 1) = q

\* the notes outside the trash whose title or content contains q, most
\* recently modified first
SubstringMatches(q) ==
    SelectSeq(modOrder, LAMBDA n : n \notin trashed
                                   /\ (Contains(title[n], q) \/ Contains(content[n], q)))

\* C26: a search answered by the keyword query returns, in this order, the
\* first limit of the notes outside the trash whose title or content contains
\* the query as a substring, most recently modified first.
C26_KeywordResultIsSubstringMatch ==
    (resp.tool \in SearchCalls /\ resp.producedBy = "keyword" /\ ~Failed
        /\ resp.query \in Queries)
      => [k \in 1..Len(resp.notes) |-> resp.notes[k].id]
           = SubSeq(SubstringMatches(resp.query), 1,
                    IF Len(SubstringMatches(resp.query)) < resp.limit
                    THEN Len(SubstringMatches(resp.query)) ELSE resp.limit)

\* C27: a retrieveForRAG call whose semantic search completed with no note
\* (over an index with at least limit vectors), while the keyword search for
\* the same query finds a note, returns the keyword result.
C27_EmptySemanticFallsBack ==
    (resp.tool \in RagCalls /\ resp.semOutcome = "empty" /\ resp.db # "down"
        /\ resp.limit <= Len(vectorIndex.val) /\ KeywordContextOfRequest # << >>)
      => (~Failed /\ resp.notes = KeywordContextOfRequest)

\* every vector of the index has the dimension of the embedding model
IndexDimensionOk(index) == \A k \in 1..Len(index) : Len(index[k]) = Len(Embed(<< >>))

\* C28: an index of another dimension than the embedding model is never
\* reported as loaded, neither by loadVectorIndex nor by the startup value of
\* the server, and no vector query is run against it.
C28_DimensionCheckedAtLoad ==
    /\ (resp.tool = "loadVectorIndex" /\ resp.kind = "true")
          => IndexDimensionOk(vectorIndex.val)
    /\ (pc = "serving" /\ hasSemanticSearch) => IndexDimensionOk(vectorIndex.val)
    /\ "vectorQuery" \in resp.trace => IndexDimensionOk(vectorIndex.val)

\* the identifiers that the cached position map assigns to the ordinals the
\* vector query returns for the request of resp
MappedOfRequest ==
    { noteIdMap.val[h.label] : h \in {g \in HitsOfRequest : g.label \in DOMAIN noteIdMap.val} }

\* C29: the notes a semantic search returns have identifiers that the position
\* map assigns to ordinals of the vector query, and when the vector query has
\* returned and none of its ordinals has a mapped identifier, the semantic
\* search ends with an empty result without a repository query.
C29_SemanticIdsAreMapped ==
    /\ (resp.tool \in SearchCalls \cup RagCalls /\ resp.producedBy = "semantic")
          => {resp.notes[k].id : k \in 1..Len(resp.notes)} \subseteq MappedOfRequest
    /\ ("vectorResult" \in resp.trace /\ MappedOfRequest = {})
          => (resp.semOutcome = "empty" /\ "findByIds" \notin resp.trace)

\* C30: a tools/list answer names retrieve_for_rag exactly when
\* hasSemanticSearch holds, a retrieve_for_rag call is served exactly when it
\* holds, the other three tools are always served, a call of any other name is
\* answered with MethodNotFound, and hasSemanticSearch never changes while the
\* server is serving.
C30_ListAndCallAgree ==
    /\ [](/\ resp.tool = "tools/list"
               => ("retrieve_for_rag" \in resp.tools <=> hasSemanticSearch)
          /\ (pc = "serving" /\ resp.tool = "retrieve_for_rag")
               => (resp.kind # "methodNotFound" <=> hasSemanticSearch)
          /\ (pc = "serving" /\ resp.tool \in ServerTools \ {"retrieve_for_rag"})
               => resp.kind # "methodNotFound"
          /\ (pc = "serving" /\ resp.tool \notin ServerTools \cup {"none", "tools/list"})
               => resp.kind = "methodNotFound")
    /\ [][pc = "serving" => hasSemanticSearch' = hasSemanticSearch]_vars

\* the tools are listed by a server whose index load failed at startup
C30_Witness ==
    /\ resp.tool = "tools/list"
    /\ resp.tools = {"search_notes", "get_note", "get_tags"}
    /\ embedder
    /\ loadFailed

====
